---------------------------- MODULE Spec2Model ----------------------------
(***************************************************************************)
(* A model of the Andromeda gateway (src/server.js): the session store,    *)
(* the rate limiter, the tool registry, the two chat handlers with their   *)
(* upstream calls as suspension points, and the stream relay's parser.     *)
(*                                                                         *)
(* JavaScript values are records [t, v]: t is the typeof tag and v a tuple *)
(* of strings (the characters of a string, the digits of a number).  A     *)
(* text whose length the code never reads is a tuple of longer pieces.     *)
(***************************************************************************)
EXTENDS Integers, Sequences, FiniteSets, TLC

(***************************************************************************)
(* Program constants (src/server.js).                                      *)
(***************************************************************************)
MAX_MESSAGE_LENGTH == 1000
MAX_SESSION_MESSAGES == 20
SESSION_TTL_MS == 1800000
REQUEST_TIMEOUT_MS == 15000
STREAM_TIMEOUT_MS == 45000
RATE_LIMIT_WINDOW_MS == 60000
RATE_LIMIT_MAX == 30
MAX_TOOL_ITERATIONS == 3
DEFAULT_MODEL == <<"gpt-5-mini">>
ALLOWED_MODELS == {DEFAULT_MODEL, <<"gpt-5">>, <<"gpt-5-mini">>}

(***************************************************************************)
(* Bounds of the model.                                                    *)
(***************************************************************************)
MaxRequests == 2
MaxToolCalls == 3
MaxRateCalls == 32
MaxTicks == 6
MaxRejectCalls == 32

\* Two handlers can be in flight at once.
Slots == {1, 2}

(***************************************************************************)
(* JavaScript values.                                                      *)
(***************************************************************************)
Str(chars) == [t |-> "string", v |-> chars]
Undefined == [t |-> "undefined", v |-> <<>>]
Num(digits) == [t |-> "number", v |-> digits]

Truthy(x) ==
    CASE x.t = "undefined" -> FALSE
      [] x.t = "null" -> FALSE
      [] x.t = "string" -> x.v # <<>>
      [] x.t = "number" -> x.v # <<"0">>
      [] OTHER -> TRUE

IsSpace(c) == c \in {" ", "\t", "\n", "\r"}

RECURSIVE TrimStart(_)
TrimStart(s) ==
    IF s # <<>> /\ IsSpace(Head(s)) THEN TrimStart(Tail(s)) ELSE s

RECURSIVE TrimEnd(_)
TrimEnd(s) ==
    IF s # <<>> /\ IsSpace(s[Len(s)]) THEN TrimEnd(SubSeq(s, 1, Len(s) - 1)) ELSE s

Trim(s) == TrimEnd(TrimStart(s))

StartsWith(s, p) == Len(s) >= Len(p) /\ SubSeq(s, 1, Len(p)) = p

Max(a, b) == IF a > b THEN a ELSE b
Min(a, b) == IF a < b THEN a ELSE b

\* Array.prototype.slice(-n): the last n elements (all of them when fewer).
SliceLast(s, n) == SubSeq(s, Max(1, Len(s) - n + 1), Len(s))

RECURSIVE Digits(_)
Digits(n) ==
    LET d == <<"0", "1", "2", "3", "4", "5", "6", "7", "8", "9">>
    IN  IF n < 10 THEN <<d[n + 1]>> ELSE Digits(n \div 10) \o <<d[(n % 10) + 1]>>

\* Math.ceil(a / b) for b > 0 (a may be negative).
CeilDiv(a, b) == -((-a) \div b)


(***************************************************************************)
(* State.                                                                  *)
(*   now             the wall clock (Date.now()), in milliseconds          *)
(*   apiKey          whether OPENAI_API_KEY is set                         *)
(*   heap            the session objects ever created, by reference        *)
(*   sessions        the Map `sessions`: session id -> reference           *)
(*   rateLimitStore  the Map `rateLimitStore`: client key -> entry         *)
(*   req             the request handlers in flight, one per slot          *)
(*   started         how many requests have been accepted so far           *)
(*   hist            per session object, every turn ever pushed to it      *)
(*   last            what the last handler step did (what, slot)           *)
(***************************************************************************)
VARIABLES now, apiKey, heap, sessions, rateLimitStore, req, started, hist, last

vars == <<now, apiKey, heap, sessions, rateLimitStore, req, started, hist, last>>

\* The shared mutable stores, threaded through the handlers' synchronous code.
Store == [heap |-> heap, sessions |-> sessions, rl |-> rateLimitStore, hist |-> hist]

MapSet(m, k, x) == [j \in DOMAIN m \cup {k} |-> IF j = k THEN x ELSE m[j]]
MapDelete(m, k) == [j \in DOMAIN m \ {k} |-> m[j]]
EmptyMap == [j \in {} |-> 0]

(***************************************************************************)
(* Session store.                                                          *)
(***************************************************************************)
NullId == [t |-> "null", v |-> <<>>]
NoUpdatedAt == -1

isValidSessionIdAnyLength(sessionId) == sessionId.t = "string"

isValidSessionId(sessionId) ==
    sessionId.t = "string" /\ Len(sessionId.v) >= 8 /\ Len(sessionId.v) <= 64

pruneMessagesFront(messages) ==
    IF Len(messages) > MAX_SESSION_MESSAGES
    THEN SubSeq(messages, 1, MAX_SESSION_MESSAGES)
    ELSE messages

pruneMessages(messages) ==
    IF Len(messages) > MAX_SESSION_MESSAGES
    THEN SliceLast(messages, MAX_SESSION_MESSAGES)
    ELSE messages

\* pruneSession(session), on the object o of store M.
pruneSession(M, o) ==
    [M EXCEPT !.heap[o].messages = pruneMessages(@)]

\* session.messages.push(turn)
pushTurn(M, o, turn) ==
    [M EXCEPT !.heap[o].messages = Append(@, turn),
              !.hist[o] = Append(@, turn)]

\* getSession(sessionId): the store after the call and the object returned.
getSession(M, sessionId, t) ==
    IF ~isValidSessionId(sessionId)
    THEN [M |-> [M EXCEPT !.heap = Append(@, [id |-> NullId, messages |-> <<>>,
                                               updatedAt |-> NoUpdatedAt]),
                          !.hist = Append(@, <<>>)],
          obj |-> Len(M.heap) + 1]
    ELSE LET M1 == IF sessionId \in DOMAIN M.sessions
                   THEN M
                   ELSE [M EXCEPT !.heap = Append(@, [id |-> sessionId, messages |-> <<>>,
                                                       updatedAt |-> t]),
                                  !.hist = Append(@, <<>>),
                                  !.sessions = MapSet(@, sessionId, Len(M.heap) + 1)]
             o == M1.sessions[sessionId]
         IN  [M |-> [M1 EXCEPT !.heap[o].updatedAt = t], obj |-> o]

cleanupSessionsAll(M, t) == [M EXCEPT !.sessions = EmptyMap]

\* cleanupSessions()
cleanupSessions(M, t) ==
    LET cutoff == t - SESSION_TTL_MS
        keepS == {id \in DOMAIN M.sessions : ~(M.heap[M.sessions[id]].updatedAt < cutoff)}
        keepR == {k \in DOMAIN M.rl : ~(M.rl[k].resetAt < t)}
    IN  [M EXCEPT !.sessions = [id \in keepS |-> M.sessions[id]],
                  !.rl = [k \in keepR |-> M.rl[k]]]

(***************************************************************************)
(* Rate limiter.                                                           *)
(***************************************************************************)
windowExpired(t, entry) == t > entry.resetAt

\* rateLimit(req, res, next): the store after the call, whether next() is
\* called, and the Retry-After header of a rejection (-1 when admitted).
rateLimit(M, key, t) ==
    LET entry0 == IF key \in DOMAIN M.rl
                  THEN M.rl[key]
                  ELSE [count |-> 0, resetAt |-> t + RATE_LIMIT_WINDOW_MS]
        entry1 == IF windowExpired(t, entry0)
                  THEN [count |-> 0, resetAt |-> t + RATE_LIMIT_WINDOW_MS]
                  ELSE entry0
        entry == [entry1 EXCEPT !.count = @ + 1]
        M1 == [M EXCEPT !.rl = MapSet(@, key, entry)]
    IN  IF entry.count > RATE_LIMIT_MAX
        THEN [M |-> M1, admitted |-> FALSE,
              retryAfter |-> CeilDiv(entry.resetAt - t, 1000)]
        ELSE [M |-> M1, admitted |-> TRUE, retryAfter |-> -1]

(***************************************************************************)
(* Turns.  tool_calls is <<>> and has_tool_calls FALSE on a turn without   *)
(* the property; tool_call_id is <<>> on a turn that is not a tool result. *)
(***************************************************************************)
UserTurn(content) ==
    [role |-> "user", content |-> content, has_tool_calls |-> FALSE,
     tool_calls |-> <<>>, tool_call_id |-> <<>>]

AssistantTurn(content) ==
    [role |-> "assistant", content |-> content, has_tool_calls |-> FALSE,
     tool_calls |-> <<>>, tool_call_id |-> <<>>]

AssistantToolTurn(content, calls) ==
    [role |-> "assistant", content |-> content, has_tool_calls |-> TRUE,
     tool_calls |-> calls, tool_call_id |-> ""]

ToolTurnAnonymous(id, content) ==
    [role |-> "tool", content |-> content, has_tool_calls |-> FALSE,
     tool_calls |-> <<>>, tool_call_id |-> <<>>]

ToolTurn(id, content) ==
    [role |-> "tool", content |-> content, has_tool_calls |-> FALSE,
     tool_calls |-> <<>>, tool_call_id |-> id]

(***************************************************************************)
(* Tool registry.                                                          *)
(***************************************************************************)
constellations ==
    << <<"Orion: Hunter figure with bright belt stars.">>,
       <<"Lyra: Harp-shaped constellation anchored by Vega.">>,
       <<"Cygnus: Swan gliding through the Milky Way.">>,
       <<"Cassiopeia: W-shaped constellation named for a queen.">>,
       <<"Scorpius: Scorpion with the red star Antares.">> >>

\* JSON.parse on the raw argument payloads the model enumerates: the parsed
\* value's kind and, for an object, its goal property ("undefined" when the
\* object has none: the template literal prints it so).
ArgsEmptyObject == [kind |-> "object", goal |-> <<"undefined">>]

JSONParseArgs(text) ==
    CASE text = <<"{}">> -> ArgsEmptyObject
      [] text = <<"{\"goal\":\"Mars\"}">> -> [kind |-> "object", goal |-> <<"Mars">>]
      [] text = <<"null">> -> [kind |-> "null", goal |-> <<>>]
      [] text = <<"5">> -> [kind |-> "number", goal |-> <<"undefined">>]
      [] OTHER -> [kind |-> "SyntaxError", goal |-> <<>>]

\* The args resolveToolCalls hands to runTool for a call.
parseCallArguments(call) ==
    IF Truthy(call.arguments)
    THEN LET parsed == JSONParseArgs(call.arguments.v)
         IN  IF parsed.kind = "SyntaxError" THEN ArgsEmptyObject ELSE parsed
    ELSE ArgsEmptyObject

\* new Date(t).toISOString(), as the digits of t after a "T".
toISOString(t) == <<"T">> \o Digits(t)

\* runTool(name, args): rnd is the index Math.random() selects.  A throw is
\* [ok |-> FALSE] with the error's message.
runTool(name, args, t, rnd) ==
    CASE name = "get_server_time" -> [ok |-> TRUE, value |-> toISOString(t)]
      [] name = "get_random_constellation" -> [ok |-> TRUE, value |-> constellations[rnd]]
      [] name = "plan_mission" ->
            IF args.kind = "null"
            THEN [ok |-> FALSE,
                  value |-> <<"Cannot read properties of null (reading 'goal')">>]
            ELSE [ok |-> TRUE,
                  value |-> <<"Mission outline for \"">> \o args.goal
                            \o <<"\":\n1. Define objectives.\n2. Assemble sensors.\n3. Run calibration.\n4. Execute observation.\n5. Synthesize insights.">>]
      [] OTHER -> [ok |-> TRUE, value |-> <<"Tool \"", name, "\" not available.">>]

\* The for loop of resolveToolCalls from call number k on: one tool turn per
\* call, until a call throws.
RECURSIVE resolveCallsFrom(_, _, _, _, _, _)
resolveCallsFrom(M, o, calls, k, t, rnds) ==
    IF k > Len(calls)
    THEN [M |-> M, ok |-> TRUE, error |-> <<>>]
    ELSE LET call == calls[k]
             result == runTool(call.name, parseCallArguments(call), t, rnds[k])
         IN  IF ~result.ok
             THEN [M |-> M, ok |-> FALSE, error |-> result.value]
             ELSE resolveCallsFrom(pushTurn(M, o, ToolTurn(call.id, result.value)),
                                   o, calls, k + 1, t, rnds)

resolveToolCallsSkipped(M, message, o, t, rnds) ==
    [M |-> M, ok |-> TRUE, resolved |-> FALSE, error |-> <<>>]

\* resolveToolCalls(message, session): the store after it, what it returned
\* and, when it threw, the error.
resolveToolCalls(M, message, o, t, rnds) ==
    IF ~message.has_tool_calls
    THEN [M |-> M, ok |-> TRUE, resolved |-> FALSE, error |-> <<>>]
    ELSE LET M1 == pushTurn(M, o, AssistantToolTurn(message.content, message.tool_calls))
             done == resolveCallsFrom(M1, o, message.tool_calls, 1, t, rnds)
         IN  [M |-> done.M, ok |-> done.ok, resolved |-> TRUE, error |-> done.error]

(***************************************************************************)
(* Stream relay: the parser of the upstream event stream.                  *)
(*                                                                         *)
(* The upstream body is a sequence of bytes.  An ASCII byte is written as  *)
(* its character; "C3" and "A9" are the two bytes of the UTF-8 encoding of *)
(* the character "e-acute", a lead byte and its continuation byte.         *)
(***************************************************************************)
IsLeadByte(b) == b = "C3"
IsContinuationByte(b) == b = "A9"
EAcute == "e-acute"
ReplacementChar == "U+FFFD"

\* What the byte at index k of bytes decodes to: nothing for a continuation
\* byte that completes the lead byte before it, and for a lead byte that
\* ends a streamed chunk (it is kept for the next call).
decodedAt(bytes, k, stream) ==
    LET b == bytes[k]
    IN  IF IsLeadByte(b)
        THEN IF k = Len(bytes)
             THEN IF stream THEN <<>> ELSE <<ReplacementChar>>
             ELSE IF IsContinuationByte(bytes[k + 1])
                  THEN <<EAcute>> ELSE <<ReplacementChar>>
        ELSE IF IsContinuationByte(b)
        THEN IF k > 1 /\ IsLeadByte(bytes[k - 1]) THEN <<>> ELSE <<ReplacementChar>>
        ELSE <<b>>

RECURSIVE decodedRange(_, _, _, _)
decodedRange(bytes, lo, hi, stream) ==
    IF lo > hi THEN <<>>
    ELSE IF lo = hi THEN decodedAt(bytes, lo, stream)
    ELSE LET mid == (lo + hi) \div 2
         IN  decodedRange(bytes, lo, mid, stream) \o decodedRange(bytes, mid + 1, hi, stream)

\* TextDecoder.decode(bytes, {stream}): the decoded text and the bytes of an
\* incomplete character kept for the next call (none when not streaming).
utf8Decode(bytes, stream) ==
    [text |-> decodedRange(bytes, 1, Len(bytes), stream),
     pending |-> IF stream /\ bytes # <<>> /\ IsLeadByte(bytes[Len(bytes)])
                 THEN <<bytes[Len(bytes)]>> ELSE <<>>]

\* decoder.decode(value, { stream: true })
decodeChunk(pending, chunk) == utf8Decode(pending \o chunk, TRUE)

\* String.prototype.split("\n"): the pieces between line feeds; never empty.
RECURSIVE splitLines(_)
splitLines(text) ==
    IF \A k \in 1..Len(text) : text[k] # "\n"
    THEN <<text>>
    ELSE LET k == CHOOSE j \in 1..Len(text) :
                      text[j] = "\n" /\ \A h \in 1..(j - 1) : text[h] # "\n"
         IN  <<SubSeq(text, 1, k - 1)>> \o splitLines(SubSeq(text, k + 1, Len(text)))

DataPrefix == <<"d", "a", "t", "a", ":">>
DoneText == <<"[", "D", "O", "N", "E", "]">>

\* The payload texts of the upstream events the model enumerates.
DeltaTextA ==
    <<"{", "\"", "c", "h", "o", "i", "c", "e", "s", "\"", ":", "[", "{",
      "\"", "d", "e", "l", "t", "a", "\"", ":", "{", "\"", "c", "o", "n",
      "t", "e", "n", "t", "\"", ":", "\"", "A", "\"", "}", "}", "]", "}">>

DeltaTextB ==
    <<"{", "\"", "c", "h", "o", "i", "c", "e", "s", "\"", ":", "[", "{",
      "\"", "d", "e", "l", "t", "a", "\"", ":", "{", "\"", "c", "o", "n",
      "t", "e", "n", "t", "\"", ":", "\"", "B", "\"", "}", "}", "]", "}">>

\* The content is the two-byte character, as decoded.
DeltaTextE ==
    <<"{", "\"", "c", "h", "o", "i", "c", "e", "s", "\"", ":", "[", "{",
      "\"", "d", "e", "l", "t", "a", "\"", ":", "{", "\"", "c", "o", "n",
      "t", "e", "n", "t", "\"", ":", "\"">> \o <<EAcute>> \o
    <<"\"", "}", "}", "]", "}">>

EmptyObjectText == <<"{", "}">>
NullText == <<"n", "u", "l", "l">>

\* JSON.parse(data) followed by payload.choices?.[0]?.delta?.content, on the
\* payload texts above; any other text the model's streams can put on a line
\* is not JSON.  kind is what the parse gave; content is <<>> when the record
\* has no content.
JSONParsePayload(data) ==
    CASE data = DeltaTextA -> [kind |-> "object", content |-> <<"A">>]
      [] data = DeltaTextB -> [kind |-> "object", content |-> <<"B">>]
      [] data = DeltaTextE -> [kind |-> "object", content |-> <<EAcute>>]
      [] data = EmptyObjectText -> [kind |-> "object", content |-> <<>>]
      [] data = NullText -> [kind |-> "null", content |-> <<>>]
      [] OTHER -> [kind |-> "SyntaxError", content |-> <<>>]

\* The parser's state carried by the relay loop of one streaming turn.
RelayInit ==
    [pending |-> <<>>, buffer |-> <<>>, finalText |-> <<>>, out |-> <<>>,
     events |-> <<>>, ok |-> TRUE, error |-> <<>>]

DeltaEvent(delta) == [type |-> "delta", v |-> delta]
ModelEvent(model) == [type |-> "model", v |-> model]
ErrorEvent(message) == [type |-> "error", v |-> message]
DoneEvent == [type |-> "done", v |-> <<>>]

accumulateLast(finalText, delta) == delta

\* finalText += delta
accumulate(finalText, delta) == finalText \o delta

\* One pass of `for (const line of lines)`: st is the relay state so far.
\* A line whose payload parses to null throws at payload.choices (the
\* property read of null is outside the try around JSON.parse).
processLine(st, line) ==
    LET trimmed == Trim(line)
    IN  IF ~StartsWith(trimmed, DataPrefix)
        THEN st
        ELSE LET data == Trim(SubSeq(trimmed, Len(DataPrefix) + 1, Len(trimmed)))
             IN  IF data = DoneText
                 THEN [st EXCEPT !.events = Append(@, [k |-> "done", v |-> <<>>])]
                 ELSE LET payload == JSONParsePayload(data)
                      IN  CASE payload.kind = "SyntaxError" ->
                                 [st EXCEPT !.events = Append(@, [k |-> "malformed", v |-> <<>>])]
                            [] payload.kind = "null" ->
                                 [st EXCEPT !.events = Append(@, [k |-> "null", v |-> <<>>]),
                                            !.ok = FALSE,
                                            !.error = <<"Cannot read properties of null (reading 'choices')">>]
                            [] OTHER ->
                                 IF payload.content # <<>>
                                 THEN [st EXCEPT !.events = Append(@, [k |-> "delta", v |-> payload.content]),
                                                 !.finalText = accumulate(@, payload.content),
                                                 !.out = Append(@, DeltaEvent(payload.content))]
                                 ELSE [st EXCEPT !.events = Append(@, [k |-> "empty", v |-> <<>>])]

RECURSIVE processLines(_, _)
processLines(st, lines) ==
    IF lines = <<>> \/ ~st.ok
    THEN st
    ELSE processLines(processLine(st, Head(lines)), Tail(lines))

\* buffer = lines.pop() || "" with the lines that were complete thrown away
\* only after they are processed; the mutant forgets the carry-over.
carryOverNone(lines) == <<>>

carryOver(lines) == lines[Len(lines)]

\* The body of the while loop for one chunk read from upstream.
relayChunk(st, chunk) ==
    LET dec == decodeChunk(st.pending, chunk)
        lines == splitLines(st.buffer \o dec.text)
        st1 == [st EXCEPT !.pending = dec.pending, !.buffer = carryOver(lines)]
    IN  processLines(st1, SubSeq(lines, 1, Len(lines) - 1))

(***************************************************************************)
(* Request handlers.  A handler runs from one await to the next as one     *)
(* step; pc names the await it is suspended at:                            *)
(*   "buffered"    awaiting a buffered completion (callOpenAI + json())    *)
(*   "body"        awaiting the body of a buffered completion whose        *)
(*                 response (status and headers) has arrived               *)
(*   "streamcall"  awaiting the streamed completion's response             *)
(*   "reading"     awaiting reader.read()                                  *)
(*   "done"        the response has ended                                  *)
(* calls, resps and finals record the upstream calls issued, the kinds of  *)
(* the buffered answers and the final assistant turns pushed; at is the    *)
(* time the request arrived, up the upstream body with pos bytes of it     *)
(* read (bytewise: one byte per read so far; carried: some read ended      *)
(* inside a line), expect the content deltas upstream put in it.           *)
(* timeoutMs is the delay of the timer fetchWithTimeout set for the call   *)
(* in flight, stepAt the time of the handler's last step, closed whether   *)
(* the client has closed the connection of the response, key the client   *)
(* key the rate limiter counted the request under.                         *)
(***************************************************************************)
NoJson == [error |-> <<>>, sessionId |-> Undefined, message |-> <<>>, model |-> <<>>, ok |-> FALSE]

IdleReq ==
    [pc |-> "idle", endpoint |-> "none", sessionId |-> Undefined, model |-> Undefined,
     session |-> 0, i |-> 0, resolved |-> FALSE, usedModel |-> <<>>,
     initialModel |-> <<>>, relay |-> RelayInit, up |-> <<>>, pos |-> 0,
     bytewise |-> TRUE, carried |-> FALSE, expect |-> <<>>, at |-> 0,
     status |-> 0, retryAfter |-> -1, json |-> NoJson,
     calls |-> <<>>, resps |-> <<>>, finals |-> 0, error |-> <<>>,
     timeoutMs |-> 0, stepAt |-> 0, closed |-> FALSE, key |-> ""]

failSilent(rq, message) ==
    [rq EXCEPT !.pc = "done", !.error = message,
               !.status = IF rq.endpoint = "chat" THEN 500 ELSE @]

\* The catch block of the handler: a generic 500 for /api/chat, an in-stream
\* error event carrying error.message for /api/chat/stream.
fail(rq, message) ==
    IF rq.endpoint = "chat"
    THEN [rq EXCEPT !.pc = "done", !.status = 500, !.error = message,
                    !.json = [NoJson EXCEPT !.error = <<"Server error">>]]
    ELSE [rq EXCEPT !.pc = "done", !.error = message,
                    !.relay.out = Append(@, ErrorEvent(message))]

\* The payload callOpenAI builds: tools and tool_choice unless toolChoice is
\* "none"; toolChoice is "" when the caller passes none.
\* toolChoice: resolved ? "none" : "auto"
streamToolChoice(resolved) == IF resolved THEN "none" ELSE "auto"

payloadOf(stream, toolChoice) ==
    [stream |-> stream,
     tools |-> toolChoice # "none",
     tool_choice |-> IF toolChoice = "none" THEN "absent"
                     ELSE IF toolChoice = "" THEN "auto" ELSE toolChoice]

\* await callOpenAI(...): throws at once without the API key, else the call
\* is in flight and the handler is suspended at pcNext.
callOpenAI(rq, stream, toolChoice, pcNext, hasKey) ==
    IF ~hasKey
    THEN fail(rq, <<"Missing OPENAI_API_KEY.">>)
    ELSE [rq EXCEPT !.pc = pcNext, !.calls = Append(@, payloadOf(stream, toolChoice)),
                    !.timeoutMs = IF stream THEN STREAM_TIMEOUT_MS ELSE REQUEST_TIMEOUT_MS]

\* The validation of both chat handlers: the 400 message, <<>> when valid.
validate(body) ==
    IF body.message.t # "string" \/ Len(Trim(body.message.v)) = 0
    THEN <<"Message is required.">>
    ELSE IF Len(body.message.v) > MAX_MESSAGE_LENGTH
    THEN <<"Message too long.">>
    ELSE IF Truthy(body.model) /\ ~(body.model.t = "string" /\ body.model.v \in ALLOWED_MODELS)
    THEN <<"Model not allowed.">>
    ELSE <<>>

\* rateLimit, then the handler up to its first await.  pruned is the object
\* the step ended pruning (0: none).
startHandler(M0, endpoint, key, body, t, hasKey) ==
    LET rl == rateLimit(M0, key, t)
        base == [IdleReq EXCEPT !.endpoint = endpoint, !.sessionId = body.sessionId,
                                !.model = body.model, !.at = t, !.key = key]
    IN  IF ~rl.admitted
        THEN [M |-> rl.M, pruned |-> 0,
              rq |-> [base EXCEPT !.pc = "done", !.status = 429,
                                  !.retryAfter = rl.retryAfter,
                                  !.json = [NoJson EXCEPT !.error = <<"Too many requests.">>]]]
        ELSE LET M1 == cleanupSessions(rl.M, t)
                 verdict == validate(body)
             IN  IF verdict # <<>>
                 THEN [M |-> M1, pruned |-> 0,
                       rq |-> [base EXCEPT !.pc = "done", !.status = 400,
                                           !.json = [NoJson EXCEPT !.error = verdict]]]
                 ELSE LET g == getSession(M1, body.sessionId, t)
                          M2 == pruneSession(
                                    pushTurn(g.M, g.obj, UserTurn(Trim(body.message.v))),
                                    g.obj)
                          rq1 == [base EXCEPT
                                    !.session = g.obj,
                                    !.usedModel = IF Truthy(body.model)
                                                  THEN body.model.v ELSE DEFAULT_MODEL,
                                    !.status = IF endpoint = "stream" THEN 200 ELSE 0]
                      IN  [M |-> M2, pruned |-> g.obj,
                           rq |-> callOpenAI(rq1, FALSE, "", "buffered", hasKey)]

\* What the buffered call gave: the error thrown (<<>>: none) by callOpenAI,
\* response.json() or the check of choices[0].message.
bufferedError(resp) ==
    CASE resp.kind = "network_error" -> resp.text
      [] resp.kind = "http_error" ->
            IF resp.text # <<>> THEN resp.text ELSE <<"OpenAI API request failed.">>
      [] resp.kind = "bad_json" -> <<"Unexpected token in JSON">>
      [] ~resp.message.present -> <<"Invalid response from OpenAI.">>
      [] OTHER -> <<>>

loopBoundOff(i) == TRUE

\* for (let i = 0; i < 3; i += 1)
loopContinues(i) == i < MAX_TOOL_ITERATIONS

\* The handler of /api/chat from the return of a buffered call to its next
\* await or its end.
chatAfterBuffered(M0, rq, resp, t, rnds, hasKey) ==
    LET err == bufferedError(resp)
        o == rq.session
    IN  IF err # <<>>
        THEN [M |-> M0, pruned |-> 0, rq |-> fail(rq, err)]
        ELSE LET res == resolveToolCalls(M0, resp.message, o, t, rnds)
                 rq1 == [rq EXCEPT !.resps = Append(@, IF resp.message.has_tool_calls
                                                       THEN "tools" ELSE "content")]
             IN  IF ~res.ok
                 THEN [M |-> res.M, pruned |-> 0, rq |-> fail(rq1, res.error)]
                 ELSE IF res.resolved
                 THEN LET rq2 == [rq1 EXCEPT !.i = @ + 1]
                      IN  [M |-> res.M, pruned |-> 0,
                           rq |-> IF loopContinues(rq2.i)
                                  THEN callOpenAI(rq2, FALSE, "", "buffered", hasKey)
                                  ELSE fail(rq2, <<"Tool chain did not resolve.">>)]
                 ELSE LET M1 == pruneSession(
                                    pushTurn(res.M, o, AssistantTurn(resp.message.content)), o)
                      IN  [M |-> M1, pruned |-> o,
                           rq |-> [rq1 EXCEPT
                                     !.pc = "done", !.status = 200, !.finals = @ + 1,
                                     !.usedModel = IF resp.model # <<>> THEN resp.model ELSE @,
                                     !.json = [NoJson EXCEPT
                                         !.sessionId = IF M1.heap[o].id.t = "string"
                                                       THEN M1.heap[o].id ELSE rq.sessionId,
                                         !.message = resp.message.content,
                                         !.model = IF resp.model # <<>>
                                                   THEN resp.model ELSE rq.usedModel]]]

\* The handler of /api/chat/stream from the return of its buffered call to
\* the await of the streamed call.
streamAfterBuffered(M0, rq, resp, t, rnds, hasKey) ==
    LET err == bufferedError(resp)
        o == rq.session
    IN  IF err # <<>>
        THEN [M |-> M0, pruned |-> 0, rq |-> fail(rq, err)]
        ELSE LET res == resolveToolCalls(M0, resp.message, o, t, rnds)
                 rq1 == [rq EXCEPT !.resps = Append(@, IF resp.message.has_tool_calls
                                                       THEN "tools" ELSE "content"),
                                   !.resolved = res.resolved,
                                   !.initialModel = resp.model]
             IN  IF ~res.ok
                 THEN [M |-> res.M, pruned |-> 0, rq |-> fail(rq1, res.error)]
                 ELSE [M |-> res.M, pruned |-> 0,
                       rq |-> callOpenAI(rq1, TRUE, streamToolChoice(res.resolved),
                                         "streamcall", hasKey)]

\* The streamed call returned: the error thrown, or the reader is taken and
\* the model event written.
streamAfterCall(rq, outcome) ==
    IF outcome.kind # "ok"
    THEN fail(rq, bufferedError(outcome))
    ELSE [rq EXCEPT !.pc = "reading", !.up = outcome.body, !.pos = 0,
                    !.expect = outcome.expect,
                    !.relay = [RelayInit EXCEPT !.out =
                        <<ModelEvent(IF rq.initialModel # <<>>
                                     THEN rq.initialModel ELSE DEFAULT_MODEL)>>]]

\* reader.read() gave the next n bytes of the upstream body.
streamAfterRead(rq, n) ==
    LET st == relayChunk(rq.relay, SubSeq(rq.up, rq.pos + 1, rq.pos + n))
        rq1 == [rq EXCEPT !.relay = st, !.pos = @ + n,
                          !.bytewise = @ /\ n = 1,
                          !.carried = @ \/ st.buffer # <<>>]
    IN  IF st.ok THEN rq1 ELSE fail(rq1, st.error)

\* reader.read() gave done: the answer is pushed and [DONE] written.
streamAfterDone(M0, rq) ==
    LET o == rq.session
        M1 == pruneSession(pushTurn(M0, o, AssistantTurn(rq.relay.finalText)), o)
    IN  [M |-> M1, pruned |-> o,
         rq |-> [rq EXCEPT !.pc = "done", !.finals = @ + 1,
                           !.relay.out = Append(@, DoneEvent)]]

memoryClearAll(M, sessionId) ==
    [M |-> [M EXCEPT !.sessions = EmptyMap], json |-> [NoJson EXCEPT !.ok = TRUE]]

\* The handler of /api/memory/clear: the store after it and the body sent.
memoryClear(M, sessionId) ==
    [M |-> IF Truthy(sessionId) /\ sessionId \in DOMAIN M.sessions
           THEN [M EXCEPT !.sessions = MapDelete(@, sessionId)]
           ELSE M,
     json |-> [NoJson EXCEPT !.ok = TRUE]]

(***************************************************************************)
(* What the environment can send.                                          *)
(***************************************************************************)
NoMessage == [present |-> FALSE, content |-> <<>>, has_tool_calls |-> FALSE, tool_calls |-> <<>>]

ContentMessage(content) ==
    [present |-> TRUE, content |-> content, has_tool_calls |-> FALSE, tool_calls |-> <<>>]

ToolCallsMessage(calls) ==
    [present |-> TRUE, content |-> <<>>, has_tool_calls |-> TRUE, tool_calls |-> calls]

ToolCall(id, name, arguments) == [id |-> id, name |-> name, arguments |-> arguments]

OkResponse(message) ==
    [kind |-> "ok", text |-> <<>>, model |-> <<"gpt-5-mini-2025-08-07">>,
     message |-> message, body |-> <<>>, expect |-> <<>>]

HttpError(text) ==
    [kind |-> "http_error", text |-> text, model |-> <<>>, message |-> NoMessage,
     body |-> <<>>, expect |-> <<>>]

NetworkError(text) ==
    [kind |-> "network_error", text |-> text, model |-> <<>>, message |-> NoMessage,
     body |-> <<>>, expect |-> <<>>]

\* An upstream event stream: its events, each the bytes of its lines and the
\* content delta it carries (<<>>: none).
Event(bytes, content) == [bytes |-> bytes, content |-> content]

Line(payload) == DataPrefix \o <<" ">> \o payload \o <<"\n", "\n">>

RECURSIVE BytesOf(_)
BytesOf(events) ==
    IF events = <<>> THEN <<>> ELSE Head(events).bytes \o BytesOf(Tail(events))

RECURSIVE DeltasOf(_)
DeltasOf(events) ==
    IF events = <<>> THEN <<>>
    ELSE (IF Head(events).content = <<>> THEN <<>> ELSE <<Head(events).content>>)
         \o DeltasOf(Tail(events))

StreamBody(events) ==
    [kind |-> "ok", text |-> <<>>, model |-> <<>>, message |-> NoMessage,
     body |-> BytesOf(events), expect |-> DeltasOf(events)]

EventA == Event(Line(DeltaTextA), <<"A">>)
EventB == Event(Line(DeltaTextB), <<"B">>)
EventDone == Event(Line(DoneText), <<>>)

\* The bytes of the payload whose content is the two-byte character.
DeltaBytesE ==
    <<"{", "\"", "c", "h", "o", "i", "c", "e", "s", "\"", ":", "[", "{",
      "\"", "d", "e", "l", "t", "a", "\"", ":", "{", "\"", "c", "o", "n",
      "t", "e", "n", "t", "\"", ":", "\"">> \o <<"C3", "A9">> \o
    <<"\"", "}", "}", "]", "}">>

EventE == Event(Line(DeltaBytesE), <<EAcute>>)
\* A payload cut short: not JSON.
EventMalformed == Event(Line(<<"{", "\"", "c", "h", "o">>), <<>>)
\* The JSON literal null: parses, and is no record.
EventNull == Event(Line(NullText), <<>>)
\* A record without choices.
EventEmpty == Event(Line(EmptyObjectText), <<>>)
\* A comment line.
EventComment == Event(<<":", " ", "k", "\n", "\n">>, <<>>)
\* CRLF line ends and no space after the colon.
EventCRLF == Event(DataPrefix \o DeltaTextA \o <<"\r", "\n", "\r", "\n">>, <<"A">>)
\* An event the upstream never terminated with a line feed.
EventUnterminated == Event(DataPrefix \o <<" ">> \o DeltaTextB, <<>>)

Body(sessionId, message, model) ==
    [sessionId |-> sessionId, message |-> message, model |-> model]

SidA == Str(<<"s", "e", "s", "s", "i", "o", "n", "A">>)
SidShort == Str(<<"s", "h", "o", "r", "t">>)
Hi == Str(<<"h", "i", " ">>)
Blank == Str(<<" ">>)

\* The k tool calls of one assistant message: ids call_1..call_k, the tools
\* of the registry in turn.
ToolNames == <<"get_server_time", "plan_mission", "get_random_constellation">>
ToolArgs == <<Str(<<"{}">>), Str(<<"{\"goal\":\"Mars\"}">>), Undefined>>

Calls(k) ==
    [j \in 1..k |-> ToolCall(<<"call_">> \o Digits(j), ToolNames[((j - 1) % 3) + 1],
                             ToolArgs[((j - 1) % 3) + 1])]

(***************************************************************************)
(* Actions.                                                                *)
(***************************************************************************)
Commit(M, r, rq, what, pruned) ==
    /\ heap' = M.heap
    /\ sessions' = M.sessions
    /\ rateLimitStore' = M.rl
    /\ hist' = M.hist
    /\ req' = [req EXCEPT ![r] = [rq EXCEPT !.stepAt = now]]
    /\ last' = [what |-> what, slot |-> r, pruned |-> pruned]

\* A request arrives at POST /api/chat or POST /api/chat/stream.
Start(r, endpoint, key, body) ==
    /\ req[r].pc \in {"idle", "done"}
    /\ \A q \in Slots : q < r => req[q].pc \notin {"idle", "done"}
    /\ started' = started + 1
    /\ LET h == startHandler(Store, endpoint, key, body, now, apiKey)
       IN  Commit(h.M, r, h.rq, "start", h.pruned)
    /\ UNCHANGED <<now, apiKey>>

\* The buffered completion of handler r returns.
BufferedReturn(r, resp, rnds) ==
    /\ req[r].pc \in {"buffered", "body"}
    /\ LET h == IF req[r].endpoint = "chat"
                THEN chatAfterBuffered(Store, req[r], resp, now, rnds, apiKey)
                ELSE streamAfterBuffered(Store, req[r], resp, now, rnds, apiKey)
       IN  Commit(h.M, r, h.rq, "buffered", h.pruned)
    /\ UNCHANGED <<now, apiKey, started>>

\* fetchWithTimeout: the timer runs from the call of fetch until its promise
\* settles (clearTimeout in the finally), that is, while the handler awaits
\* the response of an upstream call.
timerArmed(rq) == rq.pc \in {"buffered", "streamcall"}

\* The response of the buffered completion of handler r arrives: fetch
\* resolves, the timer is cleared, and the handler awaits the body
\* (response.json(), or response.text() of an error).
HeadersArrive(r) ==
    /\ req[r].pc = "buffered"
    /\ Commit(Store, r, [req[r] EXCEPT !.pc = "body"], "headers", 0)
    /\ UNCHANGED <<now, apiKey, started>>

\* The timer of fetchWithTimeout fires: the call in flight is aborted and
\* fetch rejects.
TimeoutFires(r) ==
    /\ timerArmed(req[r])
    /\ now >= req[r].stepAt + req[r].timeoutMs
    /\ Commit(Store, r, fail(req[r], <<"This operation was aborted">>), "timeout", 0)
    /\ UNCHANGED <<now, apiKey, started>>

\* The streamed completion of handler r returns its response (or fails).
StreamReturn(r, outcome) ==
    /\ req[r].pc = "streamcall"
    /\ Commit(Store, r, streamAfterCall(req[r], outcome), "streamcall", 0)
    /\ UNCHANGED <<now, apiKey, started>>

\* reader.read() returns the next n bytes of the upstream body.
StreamRead(r, n) ==
    /\ req[r].pc = "reading"
    /\ n >= 1
    /\ req[r].pos + n <= Len(req[r].up)
    /\ Commit(Store, r, streamAfterRead(req[r], n), "read", 0)
    /\ UNCHANGED <<now, apiKey, started>>

\* reader.read() returns done: the upstream body has ended.
StreamDone(r) ==
    /\ req[r].pc = "reading"
    /\ req[r].pos = Len(req[r].up)
    /\ LET h == streamAfterDone(Store, req[r])
       IN  Commit(h.M, r, h.rq, "streamdone", h.pruned)
    /\ UNCHANGED <<now, apiKey, started>>

\* reader.read() rejects: the upstream connection broke mid-stream.
StreamBreak(r) ==
    /\ req[r].pc = "reading"
    /\ Commit(Store, r, fail(req[r], <<"terminated">>), "streambreak", 0)
    /\ UNCHANGED <<now, apiKey, started>>

\* POST /api/memory/clear
MemoryClear(sessionId) ==
    /\ sessions' = memoryClear(Store, sessionId).M.sessions
    /\ last' = [what |-> "clear", slot |-> 0, pruned |-> 0]
    /\ UNCHANGED <<now, apiKey, heap, rateLimitStore, req, started, hist>>

\* The client closes the connection of a streaming response.  The handler
\* registers no listener for the close, so none of its state changes.
ClientClose(r) ==
    /\ req[r].endpoint = "stream"
    /\ req[r].pc \notin {"idle", "done"}
    /\ ~req[r].closed
    /\ req' = [req EXCEPT ![r].closed = TRUE]
    /\ last' = [what |-> "close", slot |-> r, pruned |-> 0]
    /\ UNCHANGED <<now, apiKey, heap, sessions, rateLimitStore, started, hist>>

\* Time passes.
Tick(d) ==
    /\ now' = now + d
    /\ last' = [what |-> "tick", slot |-> 0, pruned |-> 0]
    /\ UNCHANGED <<apiKey, heap, sessions, rateLimitStore, req, started, hist>>

Init ==
    /\ now = 0
    /\ apiKey \in BOOLEAN
    /\ heap = <<>>
    /\ sessions = EmptyMap
    /\ rateLimitStore = EmptyMap
    /\ req = [r \in Slots |-> IdleReq]
    /\ started = 0
    /\ hist = <<>>
    /\ last = [what |-> "init", slot |-> 0, pruned |-> 0]

(***************************************************************************)
(* Spec: the gateway under concurrent requests on one stored session and   *)
(* anonymous sessions, with tool-calling and failing upstream answers.     *)
(***************************************************************************)
MainBodies == {Body(SidA, Hi, Undefined), Body(SidShort, Hi, Undefined)}

MainResponses ==
    {OkResponse(ContentMessage(<<"A">>)),
     OkResponse(ToolCallsMessage(Calls(MaxToolCalls))),
     HttpError(<<"quota">>)}

MainStreams == {StreamBody(<<EventA, EventDone>>), HttpError(<<>>)}

Rnds == [j \in 1..(MaxToolCalls + 1) |-> 1]

Next ==
    \/ \E r \in Slots, e \in {"chat", "stream"}, b \in MainBodies :
          started < MaxRequests /\ Start(r, e, "ip1", b)
    \/ \E r \in Slots, resp \in MainResponses : BufferedReturn(r, resp, Rnds)
    \/ \E r \in Slots, outcome \in MainStreams : StreamReturn(r, outcome)
    \/ \E r \in Slots : StreamRead(r, Len(req[r].up) - req[r].pos)
    \/ \E r \in Slots : StreamDone(r)
    \/ \E r \in Slots : StreamBreak(r)

Spec == Init /\ [][Next]_vars

(***************************************************************************)
(* SpecRate: one client key sends requests as time passes.  The requests   *)
(* carry a blank message, so an admitted one ends at once with 400.        *)
(***************************************************************************)
RateTicks == {RATE_LIMIT_WINDOW_MS \div 2, RATE_LIMIT_WINDOW_MS \div 2 + 500}

NextRate ==
    \/ started < MaxRateCalls /\ Start(1, "chat", "ip1", Body(SidA, Blank, Undefined))
    \/ \E d \in RateTicks : now + d <= 2 * RATE_LIMIT_WINDOW_MS /\ Tick(d)

SpecRate == Init /\ [][NextRate]_vars

(***************************************************************************)
(* SpecRelay: one streaming turn whose upstream body is any of the streams *)
(* below, delivered in chunks cut at any offsets.                          *)
(***************************************************************************)
RelayStreams ==
    {StreamBody(<<EventA, EventB, EventDone>>),
     StreamBody(<<EventE, EventDone>>),
     StreamBody(<<EventA, EventMalformed, EventB, EventDone>>),
     StreamBody(<<EventA, EventNull, EventB, EventDone>>),
     StreamBody(<<EventComment, EventCRLF, EventEmpty, EventDone>>),
     StreamBody(<<EventA, EventUnterminated>>)}

RelayResponses ==
    {OkResponse(ContentMessage(<<"A">>)), OkResponse(ToolCallsMessage(Calls(1)))}

NextRelay ==
    \/ started < 1 /\ Start(1, "stream", "ip1", Body(SidA, Hi, Undefined))
    \/ \E resp \in RelayResponses : BufferedReturn(1, resp, Rnds)
    \/ \E outcome \in RelayStreams : StreamReturn(1, outcome)
    \/ \E n \in 1..(Len(req[1].up) - req[1].pos) : StreamRead(1, n)
    \/ StreamDone(1)

SpecRelay == Init /\ [][NextRelay]_vars

(***************************************************************************)
(* SpecStream: one streaming turn from its request to the end of its event *)
(* stream, with upstream bodies that go on after [DONE], break off, or     *)
(* carry a payload that is no record, read one event or all at a time, and *)
(* a client that may close the connection at any point.                    *)
(***************************************************************************)
StreamStreams ==
    {StreamBody(<<EventA, EventB, EventDone>>),
     StreamBody(<<EventA, EventDone, EventB>>),
     StreamBody(<<EventA, EventNull, EventB, EventDone>>),
     HttpError(<<"quota">>)}

StreamResponses ==
    {OkResponse(ContentMessage(<<"A">>)),
     OkResponse(ToolCallsMessage(Calls(1))),
     HttpError(<<"quota">>)}

\* The sizes of a read: one event of the body, or all that is left of it.
ReadSizes(rq) == {Len(EventA.bytes), Len(rq.up) - rq.pos}

NextStream ==
    \/ started < 1 /\ Start(1, "stream", "ip1", Body(SidA, Hi, Undefined))
    \/ \E resp \in StreamResponses : BufferedReturn(1, resp, Rnds)
    \/ \E outcome \in StreamStreams : StreamReturn(1, outcome)
    \/ \E n \in ReadSizes(req[1]) : StreamRead(1, n)
    \/ StreamDone(1)
    \/ StreamBreak(1)
    \/ ClientClose(1)

SpecStream == Init /\ [][NextStream]_vars

(***************************************************************************)
(* SpecTimeout: one chat turn against an upstream that may stop answering  *)
(* at any point, as time passes.  Time and the timer are fair; the         *)
(* upstream is not: it may never send what the handler waits for.          *)
(***************************************************************************)
TimeoutResponses ==
    {OkResponse(ContentMessage(<<"A">>)),
     OkResponse(ToolCallsMessage(Calls(1))),
     HttpError(<<"quota">>)}

TimeoutStreams == {StreamBody(<<EventA, EventDone>>)}

\* Time passes up to the bound, and beyond it for as long as a timer runs.
TickTimeout ==
    /\ \/ now + REQUEST_TIMEOUT_MS <= MaxTicks * REQUEST_TIMEOUT_MS
       \/ timerArmed(req[1]) /\ now < req[1].stepAt + req[1].timeoutMs
    /\ Tick(REQUEST_TIMEOUT_MS)

NextTimeout ==
    \/ \E e \in {"chat", "stream"} :
          started < 1 /\ Start(1, e, "ip1", Body(SidA, Hi, Undefined))
    \/ HeadersArrive(1)
    \/ \E resp \in TimeoutResponses : BufferedReturn(1, resp, Rnds)
    \/ \E outcome \in TimeoutStreams : StreamReturn(1, outcome)
    \/ StreamRead(1, Len(req[1].up) - req[1].pos)
    \/ StreamDone(1)
    \/ TimeoutFires(1)
    \/ TickTimeout

SpecTimeout ==
    Init /\ [][NextTimeout]_vars /\ WF_vars(TimeoutFires(1)) /\ WF_vars(TickTimeout)

(***************************************************************************)
(* SpecTools: one chat turn on a fresh session whose buffered answers      *)
(* carry tool calls: few or many, of known and unknown tools, with         *)
(* argument payloads that are absent, not JSON, or JSON that is no object. *)
(***************************************************************************)
CallBadJson == ToolCall(<<"call_1">>, "plan_mission", Str(<<"{oops">>))
CallUnknown == ToolCall(<<"call_2">>, "launch_probe", Str(<<"null">>))
CallNumber == ToolCall(<<"call_3">>, "plan_mission", Str(<<"5">>))
CallNull == ToolCall(<<"call_4">>, "plan_mission", Str(<<"null">>))

\* How many tool calls one assistant message carries: few, and as many as
\* fill the session's window together with the turns around them.
ToolCounts == {1, 2, MAX_SESSION_MESSAGES - 3, MAX_SESSION_MESSAGES - 2}

ToolsResponses ==
    {OkResponse(ContentMessage(<<"A">>))}
    \cup {OkResponse(ToolCallsMessage(Calls(k))) : k \in ToolCounts}
    \cup {OkResponse(ToolCallsMessage(<<CallBadJson, CallUnknown, CallNumber>>)),
          OkResponse(ToolCallsMessage(<<CallBadJson, CallNull, CallUnknown>>))}

ToolsBodies == {Body(SidA, Hi, Undefined), Body(SidShort, Hi, Undefined)}

\* What Math.random() selects for each call of a message.
ToolsRnds == [j \in 1..MAX_SESSION_MESSAGES |-> ((j - 1) % Len(constellations)) + 1]

NextTools ==
    \/ \E e \in {"chat", "stream"}, b \in ToolsBodies :
          started < 1 /\ Start(1, e, "ip1", b)
    \/ \E resp \in ToolsResponses : BufferedReturn(1, resp, ToolsRnds)
    \/ StreamReturn(1, StreamBody(<<EventA, EventDone>>))
    \/ StreamRead(1, Len(req[1].up) - req[1].pos)
    \/ StreamDone(1)

SpecTools == Init /\ [][NextTools]_vars

(***************************************************************************)
(* SpecReject: after at most MaxRequests valid turns from two client keys, *)
(* one client sends requests that fail validation, as time passes by more  *)
(* than the session lifetime.                                              *)
(***************************************************************************)
LongMessage == Str([j \in 1..(MAX_MESSAGE_LENGTH + 1) |-> "x"])

RejectBodies ==
    {Body(SidA, Blank, Undefined),
     Body(SidA, Num(<<"5">>), Undefined),
     Body(SidA, LongMessage, Undefined),
     Body(SidA, Hi, Str(<<"gpt-4">>))}

\* Time passes by more than the session lifetime (and so by more than the
\* rate-limit window), at most twice.
RejectTick == SESSION_TTL_MS + 1

NextReject ==
    \/ \E key \in {"ip1", "ip2"} :
          started < MaxRequests /\ Start(1, "chat", key, Body(SidA, Hi, Undefined))
    \/ \E e \in {"chat", "stream"}, b \in RejectBodies :
          started < MaxRejectCalls /\ Start(1, e, "ip1", b)
    \/ BufferedReturn(1, OkResponse(ContentMessage(<<"A">>)), Rnds)
    \/ now + RejectTick <= 2 * RejectTick /\ Tick(RejectTick)

SpecReject == Init /\ [][NextReject]_vars

(***************************************************************************)
(* SpecClear: chat turns and memory clears with session ids of every kind: *)
(* strings of 7, 8, 64 and 65 characters, a number, null, and none.        *)
(***************************************************************************)
Sid7 == Str([j \in 1..7 |-> "x"])
Sid64 == Str([j \in 1..64 |-> "x"])
Sid65 == Str([j \in 1..65 |-> "x"])

SessionIds == {SidA, Sid64, Sid7, Sid65, Num(<<"5">>), NullId, Undefined}

NextClear ==
    \/ \E e \in {"chat", "stream"}, id \in SessionIds :
          started < MaxRequests /\ Start(1, e, "ip1", Body(id, Hi, Undefined))
    \/ BufferedReturn(1, OkResponse(ContentMessage(<<"A">>)), Rnds)
    \/ StreamReturn(1, StreamBody(<<EventA, EventDone>>))
    \/ StreamRead(1, Len(req[1].up) - req[1].pos)
    \/ StreamDone(1)
    \/ \E id \in SessionIds : MemoryClear(id)

SpecClear == Init /\ [][NextClear]_vars

(***************************************************************************)
(* SpecErrors: two turns with the same request, run side by side against   *)
(* an upstream whose calls may fail with different error bodies or with a  *)
(* network error.                                                          *)
(***************************************************************************)
UpstreamFailures ==
    {HttpError(<<"You exceeded your current quota.">>),
     HttpError(<<"Incorrect API key provided: sk-live-1.">>),
     NetworkError(<<"fetch failed">>)}

ErrorsResponses ==
    UpstreamFailures
    \cup {OkResponse(ContentMessage(<<"A">>)), OkResponse(ToolCallsMessage(Calls(1)))}

ErrorsStreams == UpstreamFailures \cup {StreamBody(<<EventA, EventDone>>)}

NextErrors ==
    \/ \E r \in Slots, e \in {"chat", "stream"} :
          started < MaxRequests /\ Start(r, e, "ip1", Body(SidShort, Hi, Undefined))
    \/ \E r \in Slots, resp \in ErrorsResponses : BufferedReturn(r, resp, Rnds)
    \/ \E r \in Slots, outcome \in ErrorsStreams : StreamReturn(r, outcome)
    \/ \E r \in Slots : StreamRead(r, Len(req[r].up) - req[r].pos)
    \/ \E r \in Slots : StreamDone(r)

SpecErrors == Init /\ [][NextErrors]_vars

(***************************************************************************)
(* SpecExpiry: chat turns on stored sessions, one after the other, while   *)
(* time passes by a millisecond or by the session lifetime.  The upstream  *)
(* sends its response before the timer of the call fires, or the call is   *)
(* aborted; the body of the response may arrive at any later time.         *)
(***************************************************************************)
\* The clock readings after the first: the deadline of a call made at 0, the
\* session lifetime, and just past it.
ExpiryTimes == {REQUEST_TIMEOUT_MS, SESSION_TTL_MS, SESSION_TTL_MS + 1}

ExpiryResponses ==
    {OkResponse(ContentMessage(<<"A">>)), OkResponse(ToolCallsMessage(Calls(1)))}

\* The timer of the call in flight has not yet run out.
beforeTimeout(rq) == now < rq.stepAt + rq.timeoutMs

\* The clock may advance by d: no armed timer is left behind unfired.
timersAllow(d) ==
    \A r \in Slots : timerArmed(req[r]) => now + d <= req[r].stepAt + req[r].timeoutMs

NextExpiry ==
    \/ \E id \in {SidA, Sid64} :
          started < MaxRequests /\ Start(1, "chat", "ip1", Body(id, Hi, Undefined))
    \/ beforeTimeout(req[1]) /\ HeadersArrive(1)
    \/ \E resp \in ExpiryResponses :
          /\ req[1].pc = "body" \/ beforeTimeout(req[1])
          /\ BufferedReturn(1, resp, Rnds)
    \/ TimeoutFires(1)
    \/ \E t \in ExpiryTimes : t > now /\ timersAllow(t - now) /\ Tick(t - now)

SpecExpiry == Init /\ [][NextExpiry]_vars

(***************************************************************************)
(* SpecRace: two chat turns on the session id "sessionA", the second       *)
(* started while the first is suspended on an upstream call.  Each turn    *)
(* has its own message, and the upstream gives every tool call an id of    *)
(* its own.  Time passes as in SpecExpiry.                                 *)
(***************************************************************************)
Yo == Str(<<"y", "o">>)

RaceMessage(r) == IF r = 1 THEN Hi ELSE Yo

\* The two tool calls of round i of handler r: ids call_r_i_1, call_r_i_2.
RaceCalls(r, i) ==
    [j \in 1..2 |-> ToolCall(<<"call_">> \o Digits(r) \o <<"_">> \o Digits(i)
                                 \o <<"_">> \o Digits(j),
                             ToolNames[j], ToolArgs[j])]

RaceResponses(r) ==
    {OkResponse(ContentMessage(Digits(r))),
     OkResponse(ToolCallsMessage(RaceCalls(r, req[r].i)))}

NextRace ==
    \/ /\ req[1].pc = "idle" /\ started < MaxRequests
       /\ Start(1, "chat", "ip1", Body(SidA, RaceMessage(1), Undefined))
    \/ /\ started < MaxRequests
       /\ Start(2, "chat", "ip1", Body(SidA, RaceMessage(2), Undefined))
    \/ \E r \in Slots : beforeTimeout(req[r]) /\ HeadersArrive(r)
    \/ \E r \in Slots : \E resp \in RaceResponses(r) :
          /\ req[r].pc = "body" \/ beforeTimeout(req[r])
          /\ BufferedReturn(r, resp, Rnds)
    \/ \E r \in Slots : TimeoutFires(r)
    \/ \E t \in ExpiryTimes : t > now /\ timersAllow(t - now) /\ Tick(t - now)

SpecRace == Init /\ [][NextRace]_vars

(***************************************************************************)
(* Properties of the session store and the tool resolution loop (Spec).    *)
(***************************************************************************)
Objects == 1..Len(heap)

StreamedCalls(r) == {k \in 1..Len(req[r].calls) : req[r].calls[k].stream}
BufferedCalls(r) == {k \in 1..Len(req[r].calls) : ~req[r].calls[k].stream}

\* C1: every session, stored or anonymous, holds at most
\* MAX_SESSION_MESSAGES turns whenever a handler is suspended or has ended.
C1_SessionLengthBounded ==
    \A o \in Objects : Len(heap[o].messages) <= MAX_SESSION_MESSAGES

\* C2: when a handler step has pruned a session, the session holds exactly
\* the last min(n, MAX_SESSION_MESSAGES) of the n turns ever pushed to it,
\* in the order they were pushed.
C2_PrunedKeepsMostRecent ==
    last.pruned # 0 =>
        LET o == last.pruned
            n == Len(hist[o])
        IN  heap[o].messages =
                SubSeq(hist[o], n - Min(n, MAX_SESSION_MESSAGES) + 1, n)

\* A completed turn has pruned a session that had overflowed.
C2_Witness ==
    /\ last.pruned # 0
    /\ last.what \in {"buffered", "streamdone"}
    /\ req[last.slot].pc = "done"
    /\ req[last.slot].finals = 1
    /\ Len(hist[last.pruned]) > MAX_SESSION_MESSAGES + 1
    /\ Len(heap[last.pruned].messages) = MAX_SESSION_MESSAGES

\* C3: every tool turn of a session follows an assistant turn of that
\* session's list that carries a tool call with the turn's tool_call_id.
C3_ToolTurnsMatched ==
    \A o \in Objects :
        LET m == heap[o].messages
        IN  \A k \in 1..Len(m) :
                m[k].role = "tool" =>
                    \E j \in 1..(k - 1) :
                        /\ m[j].role = "assistant"
                        /\ \E c \in 1..Len(m[j].tool_calls) :
                               m[j].tool_calls[c].id = m[k].tool_call_id

\* C5: a turn makes at most 3 buffered completion calls, and a turn whose 3
\* buffered answers all carried tool calls has failed with the tool chain
\* unresolved, without pushing a final assistant turn.
C5_ToolLoopBounded ==
    \A r \in Slots :
        /\ Cardinality(BufferedCalls(r)) <= 3
        /\ (Len(req[r].resps) = 3 /\ \A k \in 1..3 : req[r].resps[k] = "tools") =>
               /\ req[r].pc = "done"
               /\ req[r].status = 500
               /\ req[r].error = <<"Tool chain did not resolve.">>
               /\ req[r].finals = 0

\* A turn has had three tool-calling answers.
C5_Witness ==
    \E r \in Slots :
        /\ req[r].endpoint = "chat"
        /\ req[r].resps = <<"tools", "tools", "tools">>
        /\ req[r].pc = "done"

C7_StreamedCallDisablesTools ==
    \A r \in Slots :
        /\ \A k \in StreamedCalls(r) :
               ~req[r].calls[k].tools /\ req[r].calls[k].tool_choice = "absent"
        /\ (req[r].endpoint = "stream" /\ req[r].finals = 1) =>
               Cardinality(StreamedCalls(r)) = 1

(***************************************************************************)
(* Properties of the rate limiter (SpecRate).                              *)
(***************************************************************************)
\* C4: a call that finds RATE_LIMIT_MAX calls already counted in the window
\* is rejected; every rejection carries a retry-after of at least 1 second;
\* and the call made retryAfter seconds after a rejection is admitted.
C4_RetryAfterHonoured ==
    [][(last'.what = "start") =>
          /\ (rateLimitStore'["ip1"].count > RATE_LIMIT_MAX) => req'[1].status = 429
          /\ req'[1].status = 429 => req'[1].retryAfter >= 1
          /\ (req[1].status = 429 /\ now' = req[1].at + 1000 * req[1].retryAfter) =>
                 req'[1].status # 429]_vars

(***************************************************************************)
(* Properties of the stream relay (SpecRelay).                             *)
(***************************************************************************)
RECURSIVE ConcatDeltas(_)
ConcatDeltas(out) ==
    IF out = <<>> THEN <<>>
    ELSE (IF Head(out).type = "delta" THEN Head(out).v ELSE <<>>) \o ConcatDeltas(Tail(out))

IsDelta(e) == e.type = "delta"

DeltasSent(r) == SelectSeq(req[r].relay.out, IsDelta)

\* C8: at every point of a streaming turn the delta events written so far
\* concatenate to the accumulator, and when the turn completes the assistant
\* turn pushed to the session has that concatenation as its content.
C8_DeltasConcatenateToAnswer ==
    \A r \in Slots :
        /\ ConcatDeltas(req[r].relay.out) = req[r].relay.finalText
        /\ (last.what = "streamdone" /\ last.slot = r) =>
               LET h == hist[req[r].session]
               IN  h[Len(h)] = AssistantTurn(ConcatDeltas(req[r].relay.out))

\* A streaming turn completed after relaying two deltas.
C8_Witness ==
    \E r \in Slots :
        /\ last.what = "streamdone" /\ last.slot = r
        /\ Len(DeltasSent(r)) = 2
        /\ req[r].relay.finalText = <<"A", "B">>

\* The relay's parser fed the whole upstream body of handler r as one chunk.
Unsplit(r) == relayChunk(RelayInit, req[r].up)

\* C9: however the upstream body was cut into chunks, once all of it has
\* been read (or the parser has thrown) the parsed events, the deltas
\* relayed and the accumulated text are those of the body fed unsplit.
C9_ChunkingInvariant ==
    \A r \in Slots :
        (/\ req[r].pc \in {"reading", "done"}
         /\ req[r].up # <<>>
         /\ req[r].pos = Len(req[r].up) \/ ~req[r].relay.ok) =>
            /\ req[r].relay.events = Unsplit(r).events
            /\ DeltasSent(r) = Unsplit(r).out
            /\ req[r].relay.finalText = Unsplit(r).finalText

\* A body carrying the two-byte character was read one byte at a time.
C9_Witness ==
    \E r \in Slots :
        /\ req[r].pc = "done"
        /\ req[r].bytewise
        /\ req[r].carried
        /\ req[r].relay.events = <<[k |-> "delta", v |-> <<EAcute>>], [k |-> "done", v |-> <<>>]>>

\* C10: a streaming turn whose upstream body was read to its end has relayed
\* the content of every well-formed content-delta event of the body, in
\* order, and ended with [DONE], whatever other events the body held.
C10_MalformedNeverAborts ==
    \A r \in Slots :
        (req[r].pc = "done" /\ req[r].up # <<>>) =>
            /\ req[r].relay.out[Len(req[r].relay.out)] = DoneEvent
            /\ DeltasSent(r) = [k \in 1..Len(req[r].expect) |-> DeltaEvent(req[r].expect[k])]

(***************************************************************************)
(* Properties of a streaming turn (SpecStream).                            *)
(***************************************************************************)
\* C11: once the relay has parsed the upstream [DONE] event, no event that
\* follows it in the upstream body is parsed into a delta (relayed and
\* accumulated), and the handler does not go back to await upstream data.
C11_SentinelTerminatesRelay ==
    \A r \in Slots :
        LET ev == req[r].relay.events
        IN  \A k \in 1..Len(ev) :
                ev[k].k = "done" =>
                    /\ \A j \in (k + 1)..Len(ev) : ev[j].k # "delta"
                    /\ req[r].pc # "reading"

\* The events written to the response of handler r, and whether the
\* response is a started event stream.
Out(r) == req[r].relay.out

StreamStarted(r) == req[r].endpoint = "stream" /\ req[r].status = 200

IsTerminal(e) == e.type \in {"error", "done"}

\* C12: the event stream of a streaming turn holds a model event only as
\* its first event, a terminal event (error or [DONE]) only as its last
\* event and only once the response has ended; a response that has ended
\* ends with exactly one terminal event: the error event when the turn
\* failed and [DONE] when it did not.
C12_EventStreamShape ==
    \A r \in Slots :
        StreamStarted(r) =>
            LET out == Out(r)
                n == Len(out)
                ended == req[r].pc = "done"
            IN  /\ \A k \in 1..n : out[k].type = "model" => k = 1
                /\ \A k \in 1..n : IsTerminal(out[k]) => (k = n /\ ended)
                /\ ended => /\ n >= 1
                            /\ IsTerminal(out[n])
                            /\ (out[n].type = "error") <=> (req[r].error # <<>>)
                            /\ (out[n].type = "done") <=> (req[r].finals = 1)

\* A streaming turn failed after it had relayed a delta.
C12_Witness ==
    \E r \in Slots :
        /\ StreamStarted(r)
        /\ req[r].pc = "done"
        /\ Len(Out(r)) = 3
        /\ Out(r)[1].type = "model"
        /\ Out(r)[2] = DeltaEvent(<<"A">>)
        /\ Out(r)[3].type = "error"

\* C19: after the client has closed the connection of a streaming turn, the
\* handler reads no further chunk from upstream.
C19_NoReadAfterClose ==
    [][\A r \in Slots : ~(req[r].closed /\ last'.what = "read" /\ last'.slot = r)]_vars

(***************************************************************************)
(* Properties of the upstream timeouts (SpecTimeout).                      *)
(***************************************************************************)
\* C13: every chat turn that has started eventually ends (with its answer,
\* a 500 or an in-stream error event), whatever the upstream does.
C13_EveryTurnEnds ==
    \A r \in Slots : (req[r].pc \notin {"idle", "done"}) ~> (req[r].pc = "done")

(***************************************************************************)
(* Properties of the execution of tool calls (SpecTools).                  *)
(***************************************************************************)
\* The turns pushed to session object o end with an assistant turn carrying
\* tool calls followed by one tool turn per call, in the order of the calls,
\* each with the id of its call.
EndsWithResolvedCalls(o) ==
    LET h == hist[o]
    IN  \E j \in 1..Len(h) :
            /\ h[j].has_tool_calls
            /\ Len(h) - j = Len(h[j].tool_calls)
            /\ \A c \in 1..Len(h[j].tool_calls) :
                   /\ h[j + c].role = "tool"
                   /\ h[j + c].tool_call_id = h[j].tool_calls[c].id

\* C14: when a handler has taken a buffered answer carrying tool calls, it
\* has pushed one tool turn for every call of the message, whatever the
\* tool names and argument payloads, and it has not failed.
C14_ToolExecutionNeverFails ==
    \A r \in Slots :
        (/\ last.what = "buffered" /\ last.slot = r
         /\ req[r].resps # <<>>
         /\ req[r].resps[Len(req[r].resps)] = "tools") =>
            /\ EndsWithResolvedCalls(req[r].session)
            /\ req[r].error \in {<<>>, <<"Tool chain did not resolve.">>}

\* A turn that completed after exactly one buffered answer with tool calls.
OneToolRound(r) ==
    /\ req[r].pc = "done"
    /\ req[r].finals = 1
    /\ \/ req[r].endpoint = "chat" /\ req[r].resps = <<"tools", "content">>
       \/ req[r].endpoint = "stream" /\ req[r].resps = <<"tools">>

\* The turns pushed by such a turn on a fresh session: the user turn, the
\* assistant turn with the k >= 1 calls, the k tool turns in the order of
\* the calls, each with the id and the result of its call, and the final
\* assistant turn.
PushedInOrder(r) ==
    LET h == hist[req[r].session]
        calls == h[2].tool_calls
        k == Len(calls)
    IN  /\ Len(h) >= 4
        /\ h[1] = UserTurn(Trim(Hi.v))
        /\ h[2].role = "assistant" /\ h[2].has_tool_calls
        /\ k >= 1
        /\ Len(h) = k + 3
        /\ \A c \in 1..k :
               /\ h[2 + c].role = "tool"
               /\ h[2 + c].tool_call_id = calls[c].id
               /\ h[2 + c].content = runTool(calls[c].name, parseCallArguments(calls[c]),
                                             now, ToolsRnds[c]).value
        /\ h[k + 3].role = "assistant" /\ ~h[k + 3].has_tool_calls

\* C15, as claimed: after such a turn the session holds exactly those turns.
C15_SessionHoldsToolRound ==
    \A r \in Slots :
        OneToolRound(r) =>
            /\ PushedInOrder(r)
            /\ heap[req[r].session].messages = hist[req[r].session]

\* C15, amended: after such a turn the session holds exactly those turns
\* when they are at most MAX_SESSION_MESSAGES (k <= 17), and the last
\* MAX_SESSION_MESSAGES of them otherwise.
C15_SessionHoldsToolRoundWindow ==
    \A r \in Slots :
        OneToolRound(r) =>
            LET h == hist[req[r].session]
            IN  /\ PushedInOrder(r)
                /\ heap[req[r].session].messages =
                       IF Len(h) <= MAX_SESSION_MESSAGES
                       THEN h
                       ELSE SubSeq(h, Len(h) - MAX_SESSION_MESSAGES + 1, Len(h))

\* A turn completed after a buffered answer with two tool calls.
C15_Witness ==
    \E r \in Slots :
        /\ OneToolRound(r)
        /\ Len(heap[req[r].session].messages) = 5
        /\ heap[req[r].session].messages[3].tool_call_id = Calls(2)[1].id
        /\ heap[req[r].session].messages[4].tool_call_id = Calls(2)[2].id

(***************************************************************************)
(* Properties of rejected requests (SpecReject).                           *)
(***************************************************************************)
\* The step is a request answered 400 or 429.
Rejected(status) == last'.what = "start" /\ req'[last'.slot].status = status

Without(id) == [k \in DOMAIN sessions \ {id} |-> sessions[k]]

\* C17: in every state and for every session id, the memory clear answers
\* {ok: true}, leaves a store that a second clear of the same id does not
\* change, and removes the entry of the id and nothing else; and a clear
\* step changes the session store in that way and nothing besides it.
C17_ClearIdempotentTotal ==
    [][/\ \A id \in SessionIds :
             LET once == memoryClear(Store, id)
                 twice == memoryClear(once.M, id)
             IN  /\ once.json.ok /\ twice.json.ok
                 /\ once.json.error = <<>> /\ twice.json.error = <<>>
                 /\ once.M.sessions = Without(id)
                 /\ once.M.heap = heap /\ once.M.rl = rateLimitStore
                 /\ id \notin DOMAIN sessions => once.M = Store
                 /\ twice.M = once.M
       /\ (last'.what = "clear") =>
             /\ \E id \in SessionIds : sessions' = Without(id)
             /\ heap' = heap
             /\ rateLimitStore' = rateLimitStore
             /\ req' = req]_vars

\* A clear has removed one of two stored sessions.
C17_Witness ==
    /\ last.what = "clear"
    /\ DOMAIN sessions = {Sid64}
    /\ \E o \in Objects : heap[o].id = SidA
    /\ \E o \in Objects : heap[o].id = Sid64

\* C20: every key of the session store is a string of 8 to 64 characters;
\* and a chat request whose sessionId is no such string is not answered
\* 400, is served with a session object of id null that the store does not
\* hold, and completes when the upstream answers.
C20_AnonymousNeverStored ==
    /\ \A id \in DOMAIN sessions :
           id.t = "string" /\ Len(id.v) >= 8 /\ Len(id.v) <= 64
    /\ \A r \in Slots :
           (/\ req[r].pc # "idle"
            /\ ~(/\ req[r].sessionId.t = "string"
                 /\ Len(req[r].sessionId.v) \in 8..64)) =>
               /\ req[r].status # 400
               /\ req[r].session \in Objects
               /\ heap[req[r].session].id = NullId
               /\ \A id \in DOMAIN sessions : sessions[id] # req[r].session
               /\ (req[r].pc = "done" /\ apiKey) => req[r].finals = 1

\* A turn whose sessionId has 65 characters completed on an anonymous
\* session while the store stayed empty.
C20_Witness ==
    \E r \in Slots :
        /\ req[r].pc = "done"
        /\ req[r].finals = 1
        /\ req[r].sessionId = Sid65
        /\ heap[req[r].session].id = NullId
        /\ DOMAIN sessions = {}

(***************************************************************************)
(* Properties of the errors the client sees (SpecErrors).                  *)
(***************************************************************************)
\* What the client of handler r has received: the status, the JSON body and
\* the events of the stream.
ClientVisible(r) == [status |-> req[r].status, json |-> req[r].json, out |-> Out(r)]

\* Handler r has ended because an upstream call failed.
FailedUpstream(r) == req[r].pc = "done" /\ req[r].error # <<>>

\* C18: two turns with the same request whose upstream failed at the same
\* call, after the same answers, have sent their clients the same output,
\* whatever the upstream errors were.
C18_ErrorsAreGeneric ==
    \A r1, r2 \in Slots :
        (/\ FailedUpstream(r1) /\ FailedUpstream(r2)
         /\ req[r1].endpoint = req[r2].endpoint
         /\ req[r1].calls = req[r2].calls
         /\ req[r1].resps = req[r2].resps) =>
            ClientVisible(r1) = ClientVisible(r2)

(***************************************************************************)
(* Properties of session expiry (SpecExpiry).                              *)
(***************************************************************************)
\* The step has pushed a turn to session object o.
Pushed(o) ==
    IF o <= Len(hist) THEN Len(hist'[o]) > Len(hist[o]) ELSE Len(hist'[o]) > 0

\* C21: every step that appends a turn to a session with an id leaves its
\* updatedAt at the time of the step; a session leaves the store only when
\* now - updatedAt exceeds SESSION_TTL_MS; and after the sweep of an
\* admitted request no stored session is older than that.
C21_ExpiryFollowsLastAccess ==
    [][/\ \A o \in 1..Len(hist') :
             (Pushed(o) /\ heap'[o].id # NullId) => heap'[o].updatedAt = now
       /\ \A id \in DOMAIN sessions \ DOMAIN sessions' :
             now - heap[sessions[id]].updatedAt > SESSION_TTL_MS
       /\ (last'.what = "start" /\ req'[last'.slot].status # 429) =>
             \A id \in DOMAIN sessions' :
                 now - heap'[sessions'[id]].updatedAt <= SESSION_TTL_MS]_vars

(***************************************************************************)
(* Properties of handlers suspended across a memory clear (SpecClear).     *)
(***************************************************************************)
\* C22: whenever a step of a handler appends a turn to a session object
\* with a non-null id, the store maps that id to that same object.
C22_AppendsOnlyToStoredSession ==
    [][\A o \in 1..Len(hist') :
          (Pushed(o) /\ heap'[o].id # NullId) =>
              /\ heap'[o].id \in DOMAIN sessions'
              /\ sessions'[heap'[o].id] = o]_vars

(***************************************************************************)
(* Properties of two chat turns racing on one session id (SpecRace).       *)
(***************************************************************************)
IsSuffix(s, h) == Len(s) <= Len(h) /\ s = SubSeq(h, Len(h) - Len(s) + 1, Len(h))

\* Every assistant turn with tool calls in m is followed at once by the
\* tool turns of its calls, in the order of the calls.
ToolRoundsTogether(m) ==
    \A j \in 1..Len(m) :
        m[j].has_tool_calls =>
            \A c \in 1..Len(m[j].tool_calls) :
                /\ j + c <= Len(m)
                /\ m[j + c].role = "tool"
                /\ m[j + c].tool_call_id = m[j].tool_calls[c].id

\* C23: when both racing turns have completed, both have written to the
\* session the store holds for the id; that session holds every turn pushed
\* to it but the oldest beyond MAX_SESSION_MESSAGES, the user turn of each
\* request among the pushed ones; and every assistant turn with tool calls
\* is followed at once by its own tool turns.
C23_NoLostUpdates ==
    (req[1].pc = "done" /\ req[2].pc = "done") =>
        LET o == req[1].session
            m == heap[o].messages
        IN  /\ req[2].session = o
            /\ SidA \in DOMAIN sessions /\ sessions[SidA] = o
            /\ \A r \in Slots :
                  \E j \in 1..Len(hist[o]) : hist[o][j] = UserTurn(Trim(RaceMessage(r).v))
            /\ IsSuffix(m, hist[o])
            /\ Len(m) >= Min(Len(hist[o]), MAX_SESSION_MESSAGES)
            /\ ToolRoundsTogether(m)

=============================================================================
